---- MODULE Spec2Model ----
(***************************************************************************)
(* A model of the d2l notebooks' own code:                                 *)
(*   - reorg_train_valid      (chapter_computer-vision/kaggle-gluon-cifar10)*)
(*   - MySequential           (chapter_deep-learning-computation/          *)
(*                             model-construction)                         *)
(*   - TokenEmbedding, knn, get_similar_tokens, get_analogy                *)
(*                            (chapter_deep-learning-computation/read-write)*)
(*   - train, and the cell that classifies the testing set and writes     *)
(*     submission.csv         (chapter_computer-vision/kaggle-gluon-cifar10)*)
(* Each component has its own specification (SpecReorg, SpecSeq,           *)
(* SpecEmbed, SpecTrain, SpecSubmit); the variables of the other           *)
(* components stay idle in it.                                             *)
(***************************************************************************)
EXTENDS Integers, Sequences, FiniteSets, TLC

VARIABLES
    \* ---- reorg_train_valid ----
    listing,            \* os.listdir(data_dir/train): the file names, in the order listed
    labels,             \* the labels dictionary: key (name before the first '.') -> class
    valid_ratio,        \* <<numerator, denominator>> of valid_ratio
    n_valid_per_label,  \* local n_valid_per_label (0 before it is computed)
    label_count,        \* local dictionary label_count
    pos,                \* number of loop iterations completed
    train_valid,        \* train_valid_test/train_valid: set of <<label, file name>>
    valid,              \* train_valid_test/valid:       set of <<label, file name>>
    train,              \* train_valid_test/train:       set of <<label, file name>>
    retval,             \* value returned by reorg_train_valid (0 before it returns)
    pcR,                \* "idle", "start", "loop", "done", "error"
    \* ---- MySequential and the framework's Sequential ----
    children,           \* MySequential._children: the OrderedDict, as a sequence of
                        \* [name, block] items in key order
    seq_children,       \* the ordered list of Blocks of an nn.Sequential given the same calls
    added,              \* the blocks passed to add so far, in call order
    fwd,                \* the last forward call since the last add: [x, y, trace, seq_y],
                        \* or NoCall
    pcS,                \* "idle" or "net"
    \* ---- TokenEmbedding, knn, get_similar_tokens, get_analogy ----
    vec_file,           \* vec.txt: its lines, each split at ' ' into its fields
    idx_to_token,       \* TokenEmbedding.idx_to_token, indexed from 0
    idx_to_vec,         \* TokenEmbedding.idx_to_vec: the rows, indexed from 0
    unknown_idx,        \* TokenEmbedding.unknown_idx
    token_to_idx,       \* TokenEmbedding.token_to_idx
    res,                \* the last call on the embedding and what it gave
    pcE,                \* "idle", "new", "built", "error"
    \* ---- train ----
    num_epochs,         \* argument num_epochs
    lr,                 \* argument lr, as <<numerator, denominator>>
    lr_period,          \* argument lr_period
    lr_decay,           \* argument lr_decay, as <<numerator, denominator>>
    batch_size,         \* the notebook's global batch_size
    train_iter,         \* argument train_iter: the y.size of each batch it yields, in order
    valid_iter,         \* argument valid_iter: TRUE when it is not None
    learning_rate,      \* trainer.learning_rate, as <<numerator, denominator>>
    epoch,              \* loop variable epoch
    batch,              \* number of batches train_iter has yielded in this epoch
    n_seen,             \* local n of train: the examples seen in this epoch
    log,                \* history: the calls made so far, in order
    pcT,                \* the statement train is at, or "idle", "done", "error"
    \* ---- the submission cell ----
    test_ds,            \* test_ds: its examples [file, image], in the order of the dataset
    test_iter,          \* test_iter: the batches it yields, each a sequence of examples
    net,                \* the trained net, as the <<a, b>> of its prediction for an image
    preds,              \* the list preds
    taken,              \* number of batches test_iter has yielded
    sorted_ids,         \* the list sorted_ids
    df,                 \* the rows [id, label] of df, as written to submission.csv
    pcP                 \* "idle", "predict", "done"

reorgVars == <<listing, labels, valid_ratio, n_valid_per_label, label_count, pos,
               train_valid, valid, train, retval, pcR>>

seqVars == <<children, seq_children, added, fwd, pcS>>

embedVars == <<vec_file, idx_to_token, idx_to_vec, unknown_idx, token_to_idx, res, pcE>>

trainVars == <<num_epochs, lr, lr_period, lr_decay, batch_size, train_iter, valid_iter,
               learning_rate, epoch, batch, n_seen, log, pcT>>

submitVars == <<test_ds, test_iter, net, preds, taken, sorted_ids, df, pcP>>

vars == <<reorgVars, seqVars, embedVars, trainVars, submitVars>>

\* What a component leaves alone: the variables of the others
notReorg == <<seqVars, embedVars, trainVars, submitVars>>
notSeq == <<reorgVars, embedVars, trainVars, submitVars>>
notEmbed == <<reorgVars, seqVars, trainVars, submitVars>>
notTrain == <<reorgVars, seqVars, embedVars, submitVars>>
notSubmit == <<reorgVars, seqVars, embedVars, trainVars>>

(***************************************************************************)
(* Bounds                                                                  *)
(***************************************************************************)
MaxStem == 3        \* small data sets: file stems "1".."MaxStem"
MaxClasses == 2     \* balanced data sets: number of classes
MaxPerClass == 20   \* balanced data sets: images per class
MaxAdds == 3        \* MySequential: number of add calls
MaxLines == 3       \* vec.txt: number of lines
MaxEpochs == 4      \* train: num_epochs
MaxPeriod == 3      \* train: lr_period
MaxExamples == 4    \* train: number of examples train_iter draws its batches from
MaxBatchSize == 2   \* train and test_iter: batch_size
MaxTest == 12       \* the testing sets: 0..MaxTest images, named "1.png", "2.png", ...
LargeTest == 101    \* a testing set of LargeTest images, with ids of three digits

(***************************************************************************)
(* Strings are sequences of one-character strings.                         *)
(***************************************************************************)
Digit == <<"0", "1", "2", "3", "4", "5", "6", "7", "8", "9">>

RECURSIVE Str(_)
\* str(j) for a natural number j
Str(j) == IF j < 10 THEN <<Digit[j + 1]>> ELSE Str(j \div 10) \o <<Digit[(j % 10) + 1]>>

\* The file name "<j>.<ext>", ext a one-character extension
FileName(j, ext) == Str(j) \o <<".", ext>>

\* Position of the first "." of s, Len(s) + 1 when there is none
FirstDot(s) ==
    IF \E k \in 1..Len(s) : s[k] = "."
    THEN CHOOSE k \in 1..Len(s) : s[k] = "." /\ \A m \in 1..(k - 1) : s[m] # "."
    ELSE Len(s) + 1

\* train_file.split('.')[0]
SplitDot0(s) == SubSeq(s, 1, FirstDot(s) - 1)

Range(s) == {s[k] : k \in DOMAIN s}

\* All orders in which os.listdir may list the set S
Perms(S) == {p \in [1..Cardinality(S) -> S] : Range(p) = S}

Max(a, b) == IF a >= b THEN a ELSE b
Min(a, b) == IF a <= b THEN a ELSE b

(***************************************************************************)
(* reorg_train_valid                                                       *)
(***************************************************************************)
\* The ten CIFAR-10 classes
ClassNames == <<"airplane", "automobile", "bird", "cat", "deer",
                "dog", "frog", "horse", "ship", "truck">>

\* valid_ratio values, as <<numerator, denominator>>: 0.1 (the notebook's), 0.5, 1.0.
\* For these three the float product n * valid_ratio has the floor of the exact one.
Ratios == {<<1, 10>>, <<1, 2>>, <<1, 1>>}

\* The empty dictionary {}
EmptyDict == [key \in {} |-> 0]

\* set(labels.values())
LabelValues(lab) == {lab[key] : key \in DOMAIN lab}

\* collections.Counter(labels.values())
Counter(lab) == [c \in LabelValues(lab) |-> Cardinality({key \in DOMAIN lab : lab[key] = c})]

\* Counter.most_common(): the classes by decreasing count
most_common(lab) ==
    CHOOSE s \in Perms(LabelValues(lab)) :
        \A a, b \in DOMAIN s : a < b => Counter(lab)[s[a]] >= Counter(lab)[s[b]]

\* n = collections.Counter(labels.values()).most_common()[-1][1]
LeastCount(lab) == Counter(lab)[most_common(lab)[Len(most_common(lab))]]

\* math.floor(n * valid_ratio), for the ratios of Ratios (for 0.1, 0.5 and 1.0 the
\* floor of the float product is that of the exact product, n div 10, n div 2 and n)
FloorTimes(n, r) == (n * r[1]) \div r[2]

\* A plausible slip: the floor alone, without max(1, ...)
NValidNoMax(n, r) == FloorTimes(n, r)

\* n_valid_per_label = max(1, math.floor(n * valid_ratio))
NValidPerLabel(n, r) == Max(1, FloorTimes(n, r))

\* label_count.get(label, 0)
GetCount(lc, label) == IF label \in DOMAIN lc THEN lc[label] ELSE 0

\* A plausible slip: <= in place of <
GoesToValidOffByOne(lc, label, nv) ==
    IF label \notin DOMAIN lc THEN TRUE ELSE lc[label] <= nv

\* label not in label_count or label_count[label] < n_valid_per_label
GoesToValid(lc, label, nv) ==
    IF label \notin DOMAIN lc THEN TRUE ELSE lc[label] < nv

\* A plausible slip: every file into one folder, as reorg_test does
CopyFileFlat(tree, fname, label) == tree \cup {<<"unknown", fname>>}

\* copyfile(fname, os.path.join(data_dir, 'train_valid_test', <tree>, label)):
\* the folder is made if it is missing, and the file is copied under its own name
CopyFile(tree, fname, label) == tree \cup {<<label, fname>>}

\* The small data sets: files "1.p" .. "MaxStem.p" and "1.p.j", whose name before the
\* first '.' is that of "1.p"; any subset of them is in data_dir/train, listed in any
\* order; labels gives any of two classes to any subset of the keys "1".."MaxStem"
SmallFiles == {FileName(j, "p") : j \in 1..MaxStem} \cup {FileName(1, "p") \o <<".", "j">>}
SmallKeys == {Str(j) : j \in 1..MaxStem}
SmallClasses == {"cat", "dog"}

\* The balanced data sets: k classes of n images, file j of class ((j-1) mod k) + 1
BalancedLabels(k, n) ==
    [key \in {Str(j) : j \in 1..(k * n)} |->
        ClassNames[(((CHOOSE j \in 1..(k * n) : Str(j) = key) - 1) % k) + 1]]
BalancedListings(k, n) ==
    { [j \in 1..(k * n) |-> FileName(j, "p")],
      [j \in 1..(k * n) |-> FileName(k * n + 1 - j, "p")] }

ReorgInputs ==
    \/ /\ \E dir \in SUBSET SmallFiles : listing \in Perms(dir)
       /\ \E K \in SUBSET SmallKeys : labels \in [K -> SmallClasses]
       /\ valid_ratio \in Ratios
    \/ \E k \in 1..MaxClasses, n \in 1..MaxPerClass :
          /\ listing \in BalancedListings(k, n)
          /\ labels = BalancedLabels(k, n)
          /\ valid_ratio = <<1, 10>>

\* The call reorg_train_valid(data_dir, labels, valid_ratio) on an empty
\* train_valid_test tree
ReorgInit ==
    /\ ReorgInputs
    /\ n_valid_per_label = 0
    /\ label_count = EmptyDict
    /\ pos = 0
    /\ train_valid = {}
    /\ valid = {}
    /\ train = {}
    /\ retval = 0
    /\ pcR = "start"

ReorgIdle ==
    /\ listing = <<>>
    /\ labels = EmptyDict
    /\ valid_ratio = <<1, 10>>
    /\ n_valid_per_label = 0
    /\ label_count = EmptyDict
    /\ pos = 0
    /\ train_valid = {}
    /\ valid = {}
    /\ train = {}
    /\ retval = 0
    /\ pcR = "idle"

\* Lines 210-213: n, n_valid_per_label, label_count = {}
Enter ==
    /\ pcR = "start"
    /\ DOMAIN labels # {}
    /\ n_valid_per_label' = NValidPerLabel(LeastCount(labels), valid_ratio)
    /\ pcR' = "loop"
    /\ UNCHANGED <<listing, labels, valid_ratio, label_count, pos,
                   train_valid, valid, train, retval>>
    /\ UNCHANGED notReorg

\* Line 210 on an empty labels: most_common() is [], so [-1] raises IndexError
EnterIndexError ==
    /\ pcR = "start"
    /\ DOMAIN labels = {}
    /\ pcR' = "error"
    /\ UNCHANGED <<listing, labels, valid_ratio, n_valid_per_label, label_count, pos,
                   train_valid, valid, train, retval>>
    /\ UNCHANGED notReorg

\* The file of the current iteration and its labels key
CurFile == listing[pos + 1]
CurKey == SplitDot0(CurFile)

\* Lines 214-224: one iteration that takes the branch of line 220
CopyToValid ==
    /\ pcR = "loop"
    /\ pos < Len(listing)
    /\ CurKey \in DOMAIN labels
    /\ LET label == labels[CurKey] IN
        /\ GoesToValid(label_count, label, n_valid_per_label)
        /\ train_valid' = CopyFile(train_valid, CurFile, label)
        /\ valid' = CopyFile(valid, CurFile, label)
        /\ label_count' = [l \in DOMAIN label_count \cup {label} |->
                             IF l = label THEN GetCount(label_count, label) + 1
                                          ELSE label_count[l]]
    /\ pos' = pos + 1
    /\ UNCHANGED <<listing, labels, valid_ratio, n_valid_per_label, train, retval, pcR>>
    /\ UNCHANGED notReorg

\* Lines 214-219, 225-228: one iteration that takes the else branch
CopyToTrain ==
    /\ pcR = "loop"
    /\ pos < Len(listing)
    /\ CurKey \in DOMAIN labels
    /\ LET label == labels[CurKey] IN
        /\ ~GoesToValid(label_count, label, n_valid_per_label)
        /\ train_valid' = CopyFile(train_valid, CurFile, label)
        /\ train' = CopyFile(train, CurFile, label)
    /\ pos' = pos + 1
    /\ UNCHANGED <<listing, labels, valid_ratio, n_valid_per_label, label_count, valid,
                   retval, pcR>>
    /\ UNCHANGED notReorg

\* A plausible slip: a file without label is skipped (labels.get and continue)
SkipUnlabelled ==
    /\ pcR = "loop"
    /\ pos < Len(listing)
    /\ CurKey \notin DOMAIN labels
    /\ pos' = pos + 1
    /\ UNCHANGED <<listing, labels, valid_ratio, n_valid_per_label, label_count,
                   train_valid, valid, train, retval, pcR>>
    /\ UNCHANGED notReorg

\* Line 215: labels[...] raises KeyError, which nothing catches
RaiseKeyError ==
    /\ pcR = "loop"
    /\ pos < Len(listing)
    /\ CurKey \notin DOMAIN labels
    /\ pcR' = "error"
    /\ UNCHANGED <<listing, labels, valid_ratio, n_valid_per_label, label_count, pos,
                   train_valid, valid, train, retval>>
    /\ UNCHANGED notReorg

\* Line 229
Return ==
    /\ pcR = "loop"
    /\ pos = Len(listing)
    /\ retval' = n_valid_per_label
    /\ pcR' = "done"
    /\ UNCHANGED <<listing, labels, valid_ratio, n_valid_per_label, label_count, pos,
                   train_valid, valid, train>>
    /\ UNCHANGED notReorg

ReorgNext == Enter \/ EnterIndexError \/ CopyToValid \/ CopyToTrain \/ RaiseKeyError \/ Return

(***************************************************************************)
(* MySequential, next to the framework's Sequential                        *)
(***************************************************************************)
NoCall == [x |-> 0, y |-> 0, trace |-> <<>>, seq_y |-> 0, called |-> FALSE]

\* Dense layers of one unit, x |-> w*x + b.  Blocks 1 and 2 carry the names the
\* framework generates; block 3 was given the prefix of block 1 by its maker.
Blocks ==
    { [id |-> 1, name |-> "dense0_", w |-> 2, b |-> 0],
      [id |-> 2, name |-> "dense1_", w |-> 1, b |-> 1],
      [id |-> 3, name |-> "dense0_", w |-> 3, b |-> 1] }

\* The inputs x of forward
Inputs == -1..2

\* block(x)
Apply(block, x) == block.w * x + block.b

\* The position of key name in the OrderedDict d, 0 when it is not a key
KeyIndex(d, name) ==
    IF \E k \in DOMAIN d : d[k].name = name
    THEN CHOOSE k \in DOMAIN d : d[k].name = name
    ELSE 0

\* OrderedDict.__setitem__: d[name] = block.  A new key goes to the end; an existing
\* key keeps its position and gets the new value.
SetItem(d, name, block) ==
    IF KeyIndex(d, name) = 0
    THEN Append(d, [name |-> name, block |-> block])
    ELSE [d EXCEPT ![KeyIndex(d, name)] = [name |-> name, block |-> block]]

\* list(self._children.values())
Values(d) == [k \in DOMAIN d |-> d[k].block]

RECURSIVE Chain(_, _)
\* for block in blocks: x = block(x); return x
Chain(blocks, x) ==
    IF blocks = <<>> THEN x ELSE Chain(Tail(blocks), Apply(Head(blocks), x))

\* MySequential.forward(x)
MyForward(d, x) == Chain(Values(d), x)

\* nn.Sequential.add(block): the block is appended to the list
SeqAdd(list, block) == Append(list, block)

\* nn.Sequential.forward(x): the blocks of the list are chained in list order
SeqForward(list, x) == Chain(list, x)

SeqInit ==
    /\ children = <<>>
    /\ seq_children = <<>>
    /\ added = <<>>
    /\ fwd = NoCall
    /\ pcS = "net"

SeqIdle ==
    /\ children = <<>>
    /\ seq_children = <<>>
    /\ added = <<>>
    /\ fwd = NoCall
    /\ pcS = "idle"

\* net.add(block), on a MySequential and on a Sequential
Add ==
    /\ pcS = "net"
    /\ Len(added) < MaxAdds
    /\ \E block \in Blocks :
          /\ children' = SetItem(children, block.name, block)
          /\ seq_children' = SeqAdd(seq_children, block)
          /\ added' = Append(added, block)
    /\ fwd' = NoCall
    /\ UNCHANGED pcS
    /\ UNCHANGED notSeq

\* net.forward(x), on both
Forward ==
    /\ pcS = "net"
    /\ \E x \in Inputs :
          fwd' = [x |-> x, y |-> MyForward(children, x), trace |-> Values(children),
                  seq_y |-> SeqForward(seq_children, x), called |-> TRUE]
    /\ UNCHANGED <<children, seq_children, added, pcS>>
    /\ UNCHANGED notSeq

SeqNext == Add \/ Forward

(***************************************************************************)
(* TokenEmbedding                                                          *)
(***************************************************************************)
\* The numbers written in vec.txt, and float(elem) for each
FloatOf == [elem \in {"-1", "0", "1", "2"} |->
              CASE elem = "-1" -> -1 [] elem = "0" -> 0 [] elem = "1" -> 1 [] elem = "2" -> 2]

\* The lines a vec.txt is made of, after line.rstrip().split(' '): word lines of
\* dimension 2 for the words "a" and "b", a word line for the literal "<unk>", and
\* the header "<number of words> <dimension>" of a fastText file
FileLines ==
    {<<"a">> \o v : v \in {<<"1", "0">>, <<"2", "0">>, <<"-1", "0">>}}
        \cup {<<"b">> \o v : v \in {<<"0", "1">>, <<"-1", "0">>}}
        \cup {<<"<unk>", "0", "1">>} \cup {<<"2", "2">>}

\* The tokens looked up: two words of the files, the unknown token, and a word
\* that is in no file
QueryTokens == {"a", "b", "<unk>", "zzz"}

\* [float(elem) for elem in elems[1:]]
Floats(line) == [j \in 1..(Len(line) - 1) |-> FloatOf[line[j + 1]]]

\* A plausible slip: > 0 in place of > 1, which lets the fastText header in
IsWordLineFromOne(line) == Len(Floats(line)) > 0

\* len(elems) > 1, elems the numbers of the line: the line is kept
IsWordLine(line) == Len(Floats(line)) > 1

\* The lines of the file that the loop of _load_embedding appends, in file order
KeptLines(file) == SelectSeq(file, IsWordLine)

\* idx_to_token as _load_embedding returns it: ['<unk>'] + the tokens appended
LoadTokens(file) ==
    [i \in 0..Len(KeptLines(file)) |->
        IF i = 0 THEN "<unk>" ELSE KeptLines(file)[i][1]]

\* idx_to_vec as _load_embedding returns it:
\* [[0] * len(idx_to_vec[0])] + the vectors appended
LoadVecs(file) ==
    [i \in 0..Len(KeptLines(file)) |->
        IF i = 0 THEN [j \in 1..Len(Floats(KeptLines(file)[1])) |-> 0]
                 ELSE Floats(KeptLines(file)[i])]

\* A plausible slip: the first index of a token is kept, not the last
TokenToIdxFirst(i2t) ==
    [token \in {i2t[i] : i \in DOMAIN i2t} |->
        CHOOSE i \in DOMAIN i2t :
            i2t[i] = token /\ \A j \in DOMAIN i2t : i2t[j] = token => j >= i]

\* {token: idx for idx, token in enumerate(idx_to_token)}: a later index of a token
\* overwrites an earlier one
TokenToIdx(i2t) ==
    [token \in {i2t[i] : i \in DOMAIN i2t} |->
        CHOOSE i \in DOMAIN i2t :
            i2t[i] = token /\ \A j \in DOMAIN i2t : i2t[j] = token => j <= i]

\* A plausible slip: index -1, the last row, for a token that is not a key
GetIdxLast(t2i, token, default) ==
    IF token \in DOMAIN t2i THEN t2i[token] ELSE Cardinality(DOMAIN t2i) - 1

\* self.token_to_idx.get(token, self.unknown_idx)
GetIdx(t2i, token, default) ==
    IF token \in DOMAIN t2i THEN t2i[token] ELSE default

\* TokenEmbedding.__getitem__(tokens)
GetItem(t2i, unk, i2v, tokens) ==
    [j \in 1..Len(tokens) |-> i2v[GetIdx(t2i, tokens[j], unk)]]

NoRes == [op |-> "none", tokens |-> <<>>, k |-> 0, vecs |-> <<>>, topk |-> <<>>,
          x |-> <<>>, out |-> <<>>]

EmbedInit ==
    /\ vec_file \in UNION {[1..n -> FileLines] : n \in 1..MaxLines}
    /\ idx_to_token = <<>>
    /\ idx_to_vec = <<>>
    /\ unknown_idx = 0
    /\ token_to_idx = EmptyDict
    /\ res = NoRes
    /\ pcE = "new"

EmbedIdle ==
    /\ vec_file = <<>>
    /\ idx_to_token = <<>>
    /\ idx_to_vec = <<>>
    /\ unknown_idx = 0
    /\ token_to_idx = EmptyDict
    /\ res = NoRes
    /\ pcE = "idle"

\* TokenEmbedding(embedding_name): __init__ with _load_embedding
Load ==
    /\ pcE = "new"
    /\ Len(KeptLines(vec_file)) > 0
    /\ idx_to_token' = LoadTokens(vec_file)
    /\ idx_to_vec' = LoadVecs(vec_file)
    /\ unknown_idx' = 0
    /\ token_to_idx' = TokenToIdx(LoadTokens(vec_file))
    /\ pcE' = "built"
    /\ UNCHANGED <<vec_file, res>>
    /\ UNCHANGED notEmbed

\* Line 469 when no line was kept: idx_to_vec[0] raises IndexError
LoadIndexError ==
    /\ pcE = "new"
    /\ Len(KeptLines(vec_file)) = 0
    /\ pcE' = "error"
    /\ UNCHANGED <<vec_file, idx_to_token, idx_to_vec, unknown_idx, token_to_idx, res>>
    /\ UNCHANGED notEmbed

RECURSIVE DotFrom(_, _, _)
DotFrom(u, v, j) == IF j > Len(u) THEN 0 ELSE u[j] * v[j] + DotFrom(u, v, j + 1)

\* np.dot(u, v), and (u * u).sum()
Dot(u, v) == DotFrom(u, v, 1)

Sign(d) == IF d > 0 THEN 1 ELSE IF d < 0 THEN -1 ELSE 0

\* cos[i] < cos[j] for the array cos of knn(W, x, k), where
\*   cos[i] = dot(W[i], x) / (sqrt(dot(W[i], W[i]) + 1e-9) * sqrt(dot(x, x))).
\* The arrays are float32, the entries small integers: a row of squared norm n >= 1 has
\* n + 1e-9 = n, and a zero row has cos 0 / (sqrt(1e-9) * |x|) = 0.  When x is the zero
\* vector every entry is 0/0 = NaN, and no comparison with a NaN is true.  Otherwise
\* cos[i] is sign(d) * sqrt(d*d / n) / |x| with d = dot(W[i], x), and the order of two
\* entries is that of sign(d) * d*d / n.  Rows of equal cosine compare equal.
CosLess(W, x, i, j) ==
    LET di == Dot(W[i], x)
        dj == Dot(W[j], x)
        ni == Max(Dot(W[i], W[i]), 1)
        nj == Max(Dot(W[j], W[j]), 1)
    IN  /\ Dot(x, x) # 0
        /\ Sign(di) * di * di * nj < Sign(dj) * dj * dj * ni

\* A plausible slip: the k smallest in place of the k largest
TopKSmallest(W, x, k) ==
    {s \in [1..k -> DOMAIN W] :
        /\ \A a, b \in 1..k : s[a] = s[b] => a = b
        /\ \A a, b \in 1..k : a < b => ~CosLess(W, x, s[b], s[a])
        /\ \A a \in 1..k, j \in DOMAIN W \ Range(s) : ~CosLess(W, x, j, s[a])}

\* npx.topk(cos, k=k, ret_typ='indices'): the indices of the k largest entries, by
\* decreasing entry.  Which of two equal entries comes first, and where NaNs go, is
\* left to the framework: every order that respects < is a possible result.
TopK(W, x, k) ==
    {s \in [1..k -> DOMAIN W] :
        /\ \A a, b \in 1..k : s[a] = s[b] => a = b
        /\ \A a, b \in 1..k : a < b => ~CosLess(W, x, s[a], s[b])
        /\ \A a \in 1..k, j \in DOMAIN W \ Range(s) : ~CosLess(W, x, s[a], j)}

\* A plausible slip: vecs[0] - vecs[1] + vecs[2]
AnalogyVectorSwapped(vecs) == [j \in DOMAIN vecs[1] |-> vecs[1][j] - vecs[2][j] + vecs[3][j]]

\* x = vecs[1] - vecs[0] + vecs[2]  (vecs is indexed from 1 here)
AnalogyVector(vecs) == [j \in DOMAIN vecs[1] |-> vecs[2][j] - vecs[1][j] + vecs[3][j]]

\* idx_to_token[int(i)] for i in topk[1:]: the tokens get_similar_tokens prints
Reported(i2t, topk) == [m \in 1..(Len(topk) - 1) |-> i2t[topk[m + 1]]]

\* embed[tokens]
CallGetItem ==
    /\ pcE = "built"
    /\ res.op = "none"
    /\ \E tokens \in UNION {[1..n -> QueryTokens] : n \in 1..2} :
          res' = [NoRes EXCEPT !.op = "getitem", !.tokens = tokens,
                     !.vecs = GetItem(token_to_idx, unknown_idx, idx_to_vec, tokens)]
    /\ UNCHANGED <<vec_file, idx_to_token, idx_to_vec, unknown_idx, token_to_idx, pcE>>
    /\ UNCHANGED notEmbed

\* get_similar_tokens(query_token, k, embed), for k = 1, 2 with k + 1 rows to take
CallGetSimilarTokens ==
    /\ pcE = "built"
    /\ res.op = "none"
    /\ \E query_token \in QueryTokens, k \in 1..Min(2, Cardinality(DOMAIN idx_to_vec) - 1) :
          LET x == GetItem(token_to_idx, unknown_idx, idx_to_vec, <<query_token>>)[1] IN
          \E topk \in TopK(idx_to_vec, x, k + 1) :
              res' = [NoRes EXCEPT !.op = "similar", !.tokens = <<query_token>>, !.k = k,
                         !.x = x, !.topk = topk, !.out = Reported(idx_to_token, topk)]
    /\ UNCHANGED <<vec_file, idx_to_token, idx_to_vec, unknown_idx, token_to_idx, pcE>>
    /\ UNCHANGED notEmbed

\* get_analogy(token_a, token_b, token_c, embed)
CallGetAnalogy ==
    /\ pcE = "built"
    /\ res.op = "none"
    /\ \E token_a, token_b, token_c \in QueryTokens \ {"<unk>"} :
          LET vecs == GetItem(token_to_idx, unknown_idx, idx_to_vec,
                              <<token_a, token_b, token_c>>)
              x == AnalogyVector(vecs) IN
          \E topk \in TopK(idx_to_vec, x, 1) :
              res' = [NoRes EXCEPT !.op = "analogy", !.tokens = <<token_a, token_b, token_c>>,
                         !.k = 1, !.vecs = vecs, !.x = x, !.topk = topk,
                         !.out = <<idx_to_token[topk[1]]>>]
    /\ UNCHANGED <<vec_file, idx_to_token, idx_to_vec, unknown_idx, token_to_idx, pcE>>
    /\ UNCHANGED notEmbed

\* The notebook cell of the call ends: what the call gave is shown and dropped
CellEnds ==
    /\ pcE = "built"
    /\ res.op # "none"
    /\ res' = NoRes
    /\ UNCHANGED <<vec_file, idx_to_token, idx_to_vec, unknown_idx, token_to_idx, pcE>>
    /\ UNCHANGED notEmbed

EmbedNext ==
    Load \/ LoadIndexError \/ CallGetItem \/ CallGetSimilarTokens \/ CallGetAnalogy \/ CellEnds

(***************************************************************************)
(* train                                                                   *)
(***************************************************************************)
\* The learning rates and decay factors passed to train, as fractions: lr = 0.1 and
\* lr_decay = 0.1 of the notebook's call, and a second decay factor
LearningRates == {<<1, 10>>}
Decays == {<<1, 10>>, <<1, 2>>}

\* a * b for two fractions (the float product trainer.learning_rate * lr_decay, taken
\* exactly)
Times(a, b) == <<a[1] * b[1], a[2] * b[2]>>

\* gluon.data.DataLoader(dataset, batch_size, shuffle=True, last_batch='keep') over m
\* examples: the y.size of the batches of one pass, the last one keeping the remainder
DataLoader(m, bs) ==
    [b \in 1..((m + bs - 1) \div bs) |-> IF b * bs <= m THEN bs ELSE m - (b - 1) * bs]

\* One call made by train, as recorded in log
Event(op, e, b) == [op |-> op, epoch |-> e, batch |-> b]

\* The call train(net, train_iter, valid_iter, num_epochs, lr, wd, ctx, lr_period,
\* lr_decay); lr_period is a count of epochs, so never negative
TrainInit ==
    /\ num_epochs \in 0..MaxEpochs
    /\ lr \in LearningRates
    /\ lr_period \in 0..MaxPeriod
    /\ lr_decay \in Decays
    /\ batch_size \in 1..MaxBatchSize
    /\ \E m \in 0..MaxExamples : train_iter = DataLoader(m, batch_size)
    /\ valid_iter \in BOOLEAN
    /\ learning_rate = <<0, 1>>
    /\ epoch = 0
    /\ batch = 0
    /\ n_seen = 0
    /\ log = <<>>
    /\ pcT = "call"

TrainIdle ==
    /\ num_epochs = 0
    /\ lr = <<1, 10>>
    /\ lr_period = 1
    /\ lr_decay = <<1, 10>>
    /\ batch_size = 1
    /\ train_iter = <<>>
    /\ valid_iter = FALSE
    /\ learning_rate = <<0, 1>>
    /\ epoch = 0
    /\ batch = 0
    /\ n_seen = 0
    /\ log = <<>>
    /\ pcT = "idle"

\* Lines 538-539: trainer = gluon.Trainer(..., {'learning_rate': lr, ...})
CreateTrainer ==
    /\ pcT = "call"
    /\ learning_rate' = lr
    /\ epoch' = 0
    /\ pcT' = "for_epoch"
    /\ UNCHANGED <<num_epochs, lr, lr_period, lr_decay, batch_size, train_iter, valid_iter,
                   batch, n_seen, log>>
    /\ UNCHANGED notTrain

\* Lines 540-541: range(num_epochs) yields the next epoch; the sums and n are reset
BeginEpoch ==
    /\ pcT = "for_epoch"
    /\ epoch < num_epochs
    /\ n_seen' = 0
    /\ batch' = 0
    /\ pcT' = "lr_check"
    /\ UNCHANGED <<num_epochs, lr, lr_period, lr_decay, batch_size, train_iter, valid_iter,
                   learning_rate, epoch, log>>
    /\ UNCHANGED notTrain

\* Line 540: range(num_epochs) is exhausted and train returns
EndTrain ==
    /\ pcT = "for_epoch"
    /\ epoch >= num_epochs
    /\ pcT' = "done"
    /\ UNCHANGED <<num_epochs, lr, lr_period, lr_decay, batch_size, train_iter, valid_iter,
                   learning_rate, epoch, batch, n_seen, log>>
    /\ UNCHANGED notTrain

\* A plausible slip: the check without 'epoch > 0', which decays in epoch 0 too
DecayDueFromZero(e, period) == IF period = 0 THEN FALSE ELSE e % period = 0

\* Line 542: epoch > 0 and epoch % lr_period == 0, for lr_period # 0 or epoch = 0
DecayDue(e, period) == IF e > 0 /\ period # 0 THEN e % period = 0 ELSE FALSE

\* Lines 542-543: trainer.set_learning_rate(trainer.learning_rate * lr_decay)
SetLearningRate ==
    /\ pcT = "lr_check"
    /\ ~(epoch > 0 /\ lr_period = 0)
    /\ DecayDue(epoch, lr_period)
    /\ learning_rate' = Times(learning_rate, lr_decay)
    /\ log' = Append(log, Event("set_learning_rate", epoch, 0))
    /\ pcT' = "for_batch"
    /\ UNCHANGED <<num_epochs, lr, lr_period, lr_decay, batch_size, train_iter, valid_iter,
                   epoch, batch, n_seen>>
    /\ UNCHANGED notTrain

\* Line 542: the condition is false
KeepLearningRate ==
    /\ pcT = "lr_check"
    /\ ~(epoch > 0 /\ lr_period = 0)
    /\ ~DecayDue(epoch, lr_period)
    /\ pcT' = "for_batch"
    /\ UNCHANGED <<num_epochs, lr, lr_period, lr_decay, batch_size, train_iter, valid_iter,
                   learning_rate, epoch, batch, n_seen, log>>
    /\ UNCHANGED notTrain

\* Line 542 with epoch > 0 and lr_period = 0: epoch % 0 raises ZeroDivisionError
PeriodZeroDivisionError ==
    /\ pcT = "lr_check"
    /\ epoch > 0
    /\ lr_period = 0
    /\ pcT' = "error"
    /\ UNCHANGED <<num_epochs, lr, lr_period, lr_decay, batch_size, train_iter, valid_iter,
                   learning_rate, epoch, batch, n_seen, log>>
    /\ UNCHANGED notTrain

\* Lines 544-545: train_iter yields the next batch
NextBatch ==
    /\ pcT = "for_batch"
    /\ batch < Len(train_iter)
    /\ batch' = batch + 1
    /\ pcT' = "record"
    /\ UNCHANGED <<num_epochs, lr, lr_period, lr_decay, batch_size, train_iter, valid_iter,
                   learning_rate, epoch, n_seen, log>>
    /\ UNCHANGED notTrain

\* Lines 546-548: y_hat = net(X), l = loss(y_hat, y).sum() under autograd.record()
ForwardLoss ==
    /\ pcT = "record"
    /\ log' = Append(log, Event("forward", epoch, batch))
    /\ pcT' = "backward"
    /\ UNCHANGED <<num_epochs, lr, lr_period, lr_decay, batch_size, train_iter, valid_iter,
                   learning_rate, epoch, batch, n_seen>>
    /\ UNCHANGED notTrain

\* A plausible slip: l.backward() left out, so that the step follows the forward pass
BackwardLeftOut ==
    /\ pcT = "backward"
    /\ pcT' = "step"
    /\ UNCHANGED <<num_epochs, lr, lr_period, lr_decay, batch_size, train_iter, valid_iter,
                   learning_rate, epoch, batch, n_seen, log>>
    /\ UNCHANGED notTrain

\* Line 549: l.backward()
Backward ==
    /\ pcT = "backward"
    /\ log' = Append(log, Event("backward", epoch, batch))
    /\ pcT' = "step"
    /\ UNCHANGED <<num_epochs, lr, lr_period, lr_decay, batch_size, train_iter, valid_iter,
                   learning_rate, epoch, batch, n_seen>>
    /\ UNCHANGED notTrain

\* Line 550: trainer.step(batch_size)
Step ==
    /\ pcT = "step"
    /\ log' = Append(log, Event("step", epoch, batch))
    /\ pcT' = "sums"
    /\ UNCHANGED <<num_epochs, lr, lr_period, lr_decay, batch_size, train_iter, valid_iter,
                   learning_rate, epoch, batch, n_seen>>
    /\ UNCHANGED notTrain

\* Lines 551-553: train_l_sum, train_acc_sum and n take the batch in
UpdateSums ==
    /\ pcT = "sums"
    /\ n_seen' = n_seen + train_iter[batch]
    /\ log' = Append(log, Event("sums", epoch, batch))
    /\ pcT' = "for_batch"
    /\ UNCHANGED <<num_epochs, lr, lr_period, lr_decay, batch_size, train_iter, valid_iter,
                   learning_rate, epoch, batch>>
    /\ UNCHANGED notTrain

\* Line 544: train_iter is exhausted; line 554
EndBatches ==
    /\ pcT = "for_batch"
    /\ batch >= Len(train_iter)
    /\ pcT' = "report"
    /\ UNCHANGED <<num_epochs, lr, lr_period, lr_decay, batch_size, train_iter, valid_iter,
                   learning_rate, epoch, batch, n_seen, log>>
    /\ UNCHANGED notTrain

\* Lines 555-556: valid_acc = d2l.evaluate_accuracy_gpu(net, valid_iter)
Evaluate ==
    /\ pcT = "report"
    /\ valid_iter
    /\ log' = Append(log, Event("evaluate", epoch, 0))
    /\ pcT' = "format"
    /\ UNCHANGED <<num_epochs, lr, lr_period, lr_decay, batch_size, train_iter, valid_iter,
                   learning_rate, epoch, batch, n_seen>>
    /\ UNCHANGED notTrain

\* Line 560: valid_iter is None
SkipEvaluate ==
    /\ pcT = "report"
    /\ ~valid_iter
    /\ pcT' = "format"
    /\ UNCHANGED <<num_epochs, lr, lr_period, lr_decay, batch_size, train_iter, valid_iter,
                   learning_rate, epoch, batch, n_seen, log>>
    /\ UNCHANGED notTrain

\* Lines 557-563: epoch_s is formatted with train_l_sum / n and printed; the epoch ends
PrintEpoch ==
    /\ pcT = "format"
    /\ n_seen # 0
    /\ log' = Append(log, Event("print", epoch, 0))
    /\ epoch' = epoch + 1
    /\ pcT' = "for_epoch"
    /\ UNCHANGED <<num_epochs, lr, lr_period, lr_decay, batch_size, train_iter, valid_iter,
                   learning_rate, batch, n_seen>>
    /\ UNCHANGED notTrain

\* Lines 558, 562 with n = 0 (train_iter yielded no batch): train_l_sum / n raises
\* ZeroDivisionError
SumsZeroDivisionError ==
    /\ pcT = "format"
    /\ n_seen = 0
    /\ pcT' = "error"
    /\ UNCHANGED <<num_epochs, lr, lr_period, lr_decay, batch_size, train_iter, valid_iter,
                   learning_rate, epoch, batch, n_seen, log>>
    /\ UNCHANGED notTrain

TrainNext ==
    \/ CreateTrainer \/ BeginEpoch \/ EndTrain
    \/ SetLearningRate \/ KeepLearningRate \/ PeriodZeroDivisionError
    \/ NextBatch \/ ForwardLoss \/ Backward \/ Step \/ UpdateSums \/ EndBatches
    \/ Evaluate \/ SkipEvaluate \/ PrintEpoch \/ SumsZeroDivisionError

(***************************************************************************)
(* Classifying the testing set and writing submission.csv                  *)
(***************************************************************************)
\* ord(ch) of the characters of the test file names
Code == [ch \in {".", "0", "1", "2", "3", "4", "5", "6", "7", "8", "9", "g", "n", "p"} |->
            CASE ch = "." -> 46
              [] ch = "g" -> 103
              [] ch = "n" -> 110
              [] ch = "p" -> 112
              [] OTHER -> 47 + (CHOOSE d \in 1..10 : Digit[d] = ch)]

\* s < t for two Python strings: at the first position where they differ the character
\* of s has the smaller code, or s is a proper prefix of t
StrLess(s, t) ==
    \E i \in 1..(Min(Len(s), Len(t)) + 1) :
        /\ \A j \in 1..(i - 1) : s[j] = t[j]
        /\ IF i <= Min(Len(s), Len(t)) THEN Code[s[i]] < Code[t[i]]
                                       ELSE Len(s) < Len(t)

\* A sequence of pairs <<key, item>> sorted by key, as Python's stable sorts leave it:
\* pair j goes to the place that counts the pairs of smaller key and the earlier pairs
\* of equal key
SortByKey(pairs) ==
    LET place == [j \in DOMAIN pairs |->
                    1 + Cardinality({k \in DOMAIN pairs :
                                        \/ StrLess(pairs[k][1], pairs[j][1])
                                        \/ pairs[k][1] = pairs[j][1] /\ k < j})]
    IN  [i \in DOMAIN pairs |-> pairs[CHOOSE j \in DOMAIN pairs : place[j] = i]]

\* The file of test image j, and the examples of a testing set of N images as the
\* directory test/unknown holds them, in some order (here by decreasing j)
TestFile(j) == Str(j) \o <<".", "p", "n", "g">>
TestFolder(N) == [i \in 1..N |-> [file |-> TestFile(N + 1 - i), image |-> N + 1 - i]]

\* gluon.data.vision.ImageFolderDataset(.../test): the examples of the one folder
\* 'unknown', by sorted file name
ImageFolderDataset(folder) ==
    LET byName == SortByKey([i \in DOMAIN folder |-> <<folder[i].file, folder[i]>>])
    IN  [i \in DOMAIN byName |-> byName[i][2]]

\* gluon.data.DataLoader(test_ds, batch_size, shuffle=False, last_batch='keep'): the
\* examples in order, batch_size at a time
TestLoader(ds, bs) ==
    [b \in DOMAIN DataLoader(Len(ds), bs) |->
        SubSeq(ds, (b - 1) * bs + 1, (b - 1) * bs + DataLoader(Len(ds), bs)[b])]

\* train_valid_ds.synsets: the class folders of train_valid, sorted
Synsets == ClassNames

\* y_hat.argmax(axis=1) for one example: the class index the net <<a, b>> gives its image
ArgMax(nt, example) == (nt[1] * example.image + nt[2]) % Len(Synsets)

\* A plausible slip: the ids left in numeric order
SortedIdsNumeric(N) == [i \in 1..N |-> i]

\* sorted_ids = list(range(1, N + 1)); sorted_ids.sort(key=lambda x: str(x))
SortedIds(N) ==
    LET byStr == SortByKey([i \in 1..N |-> <<Str(i), i>>])
    IN  [i \in DOMAIN byStr |-> byStr[i][2]]

\* The cell after train has returned: a testing set of 0..MaxTest or of LargeTest
\* images, preds = []
SubmitInit ==
    /\ \E N \in (0..MaxTest) \cup {LargeTest} :
          /\ test_ds = ImageFolderDataset(TestFolder(N))
          /\ \E bs \in 1..MaxBatchSize : test_iter = TestLoader(test_ds, bs)
    /\ net \in {<<1, 0>>, <<3, 1>>}
    /\ preds = <<>>
    /\ taken = 0
    /\ sorted_ids = <<>>
    /\ df = <<>>
    /\ pcP = "predict"

SubmitIdle ==
    /\ test_ds = <<>>
    /\ test_iter = <<>>
    /\ net = <<1, 0>>
    /\ preds = <<>>
    /\ taken = 0
    /\ sorted_ids = <<>>
    /\ df = <<>>
    /\ pcP = "idle"

\* Lines 636-638: one batch of test_iter; preds.extend(y_hat.argmax(axis=1)...)
PredictBatch ==
    /\ pcP = "predict"
    /\ taken < Len(test_iter)
    /\ preds' = preds \o [i \in DOMAIN test_iter[taken + 1] |->
                             ArgMax(net, test_iter[taken + 1][i])]
    /\ taken' = taken + 1
    /\ UNCHANGED <<test_ds, test_iter, net, sorted_ids, df, pcP>>
    /\ UNCHANGED notSubmit

\* Lines 639-643: sorted_ids, df = pd.DataFrame({'id': sorted_ids, 'label': preds}),
\* the labels replaced by their class names, df.to_csv.  The two columns have the same
\* length here (preds has one entry per example), as pd.DataFrame requires.
WriteSubmission ==
    /\ pcP = "predict"
    /\ taken >= Len(test_iter)
    /\ sorted_ids' = SortedIds(Len(test_ds))
    /\ df' = [i \in DOMAIN preds |->
                [id |-> sorted_ids'[i], label |-> Synsets[preds[i] + 1]]]
    /\ pcP' = "done"
    /\ UNCHANGED <<test_ds, test_iter, net, preds, taken>>
    /\ UNCHANGED notSubmit

SubmitNext == PredictBatch \/ WriteSubmission

(***************************************************************************)
(* Specifications: one per component, and their union                      *)
(***************************************************************************)
InitReorg == ReorgInit /\ SeqIdle /\ EmbedIdle /\ TrainIdle /\ SubmitIdle
SpecReorg == InitReorg /\ [][ReorgNext]_vars

InitSeq == ReorgIdle /\ SeqInit /\ EmbedIdle /\ TrainIdle /\ SubmitIdle
SpecSeq == InitSeq /\ [][SeqNext]_vars

InitEmbed == ReorgIdle /\ SeqIdle /\ EmbedInit /\ TrainIdle /\ SubmitIdle
SpecEmbed == InitEmbed /\ [][EmbedNext]_vars

InitTrain == ReorgIdle /\ SeqIdle /\ EmbedIdle /\ TrainInit /\ SubmitIdle
SpecTrain == InitTrain /\ [][TrainNext]_vars

InitSubmit == ReorgIdle /\ SeqIdle /\ EmbedIdle /\ TrainIdle /\ SubmitInit
SpecSubmit == InitSubmit /\ [][SubmitNext]_vars

\* train is one sequential run: whenever a statement can be executed, it is
SpecTrainFair == SpecTrain /\ WF_vars(TrainNext)

Init == InitReorg \/ InitSeq \/ InitEmbed \/ InitTrain \/ InitSubmit

Next == ReorgNext \/ SeqNext \/ EmbedNext \/ TrainNext \/ SubmitNext

Spec == Init /\ [][Next]_vars

(***************************************************************************)
(* Properties of reorg_train_valid                                         *)
(***************************************************************************)
\* The name of file f before its first '.': the longest prefix free of '.'
NameOf(f) ==
    CHOOSE p \in {SubSeq(f, 1, m) : m \in 0..Len(f)} :
        /\ "." \notin Range(p)
        /\ Len(p) = Len(f) \/ f[Len(p) + 1] = "."

\* The files stored in folder c of a tree
Folder(tree, c) == {e[2] : e \in {d \in tree : d[1] = c}}

\* The files of data_dir/train of class c
TrainFilesOf(c) ==
    {f \in Range(listing) : NameOf(f) \in DOMAIN labels /\ labels[NameOf(f)] = c}

\* The number of examples of the least frequent class in labels
LeastFrequent ==
    CHOOSE m \in 0..Cardinality(DOMAIN labels) :
        /\ \A c \in LabelValues(labels) :
              m <= Cardinality({key \in DOMAIN labels : labels[key] = c})
        /\ \E c \in LabelValues(labels) :
              m = Cardinality({key \in DOMAIN labels : labels[key] = c})

\* max(floor(n * r), 1) for the n and r of the call
ExpectedValidPerClass ==
    IF (LeastFrequent * valid_ratio[1]) \div valid_ratio[2] >= 1
    THEN (LeastFrequent * valid_ratio[1]) \div valid_ratio[2]
    ELSE 1

\* C1: after a run of reorg_train_valid on an empty train_valid_test tree, every file f
\* of data_dir/train, of label L, is in train_valid/L and in exactly one of valid/L and
\* train/L, and in no folder of another label; train and valid are disjoint and their
\* union is train_valid.
ReorgPartition ==
    pcR = "done" =>
        /\ \A f \in Range(listing) :
              LET L == labels[NameOf(f)] IN
              /\ <<L, f>> \in train_valid
              /\ (<<L, f>> \in valid) # (<<L, f>> \in train)
              /\ \A e \in train_valid \cup valid \cup train : e[2] = f => e[1] = L
        /\ valid \cap train = {}
        /\ valid \cup train = train_valid

\* C1's case: a run has returned after filing images of two classes, some in valid and
\* some in train
ReorgPartitionWitness ==
    /\ pcR = "done"
    /\ Cardinality({e[1] : e \in train_valid}) >= 2
    /\ valid # {}
    /\ train # {}

\* C2 as stated: exactly max(floor(n*r), 1) images of each class of labels are in
\* valid/<class>, and that number is returned.
ReorgValidPerClassExact ==
    pcR = "done" =>
        /\ retval = ExpectedValidPerClass
        /\ \A c \in LabelValues(labels) :
              Cardinality(Folder(valid, c)) = ExpectedValidPerClass

\* C2 as amended: the run returns max(floor(n*r), 1), and valid/<class> holds that many
\* images of the class, or all the images of the class in data_dir/train when there
\* are fewer.
ReorgValidPerClass ==
    pcR = "done" =>
        /\ retval = ExpectedValidPerClass
        /\ \A c \in LabelValues(labels) :
              /\ Folder(valid, c) \subseteq TrainFilesOf(c)
              /\ Cardinality(Folder(valid, c)) =
                    Min(ExpectedValidPerClass, Cardinality(TrainFilesOf(c)))

\* C2's case: a run has returned, one class has more images than the number returned
\* and another class of labels has fewer
ReorgValidPerClassWitness ==
    /\ pcR = "done"
    /\ \E c \in LabelValues(labels) : Cardinality(TrainFilesOf(c)) > retval
    /\ \E c \in LabelValues(labels) : Cardinality(TrainFilesOf(c)) < retval

\* A balanced training set: every file has its own key of labels, every key has its
\* file, and the classes are equally large
BalancedData ==
    /\ listing # <<>>
    /\ \A f \in Range(listing) : NameOf(f) \in DOMAIN labels
    /\ \A f, g \in Range(listing) : NameOf(f) = NameOf(g) => f = g
    /\ \A key \in DOMAIN labels : \E f \in Range(listing) : NameOf(f) = key
    /\ \A c, d \in LabelValues(labels) :
          Cardinality(TrainFilesOf(c)) = Cardinality(TrainFilesOf(d))

NumClasses == Cardinality(LabelValues(labels))
PerClass == Len(listing) \div NumClasses

\* C3: with valid_ratio = 0.1 and k balanced classes of n images, k * max(1, floor(n/10))
\* images are stored under valid and the other k*n - k*max(1, floor(n/10)) under train;
\* for 10 classes of 5,000 images that is 5,000 and 45,000.
ReorgBalancedSplit ==
    /\ (pcR = "done" /\ BalancedData /\ valid_ratio = <<1, 10>>) =>
          /\ Cardinality(valid) = NumClasses * Max(1, PerClass \div 10)
          /\ Cardinality(train) = Len(listing) - NumClasses * Max(1, PerClass \div 10)
    /\ 10 * NValidPerLabel(5000, <<1, 10>>) = 5000
    /\ 50000 - 10 * NValidPerLabel(5000, <<1, 10>>) = 45000

\* C3's case: a run over 2 classes of 20 images has returned, with 4 images under valid
\* and 36 under train
ReorgBalancedSplitWitness ==
    /\ pcR = "done"
    /\ BalancedData
    /\ valid_ratio = <<1, 10>>
    /\ NumClasses = 2
    /\ PerClass = 20
    /\ Cardinality(valid) = 4
    /\ Cardinality(train) = 36

(***************************************************************************)
(* Properties of MySequential                                              *)
(***************************************************************************)
RECURSIVE Compose(_, _, _)
\* b_n(...b_2(b_1(x))...) for the blocks b_1 .. b_n of bs, from position k on
Compose(bs, k, x) ==
    IF k > Len(bs) THEN x ELSE Compose(bs, k + 1, bs[k].w * x + bs[k].b)

\* C4: forward executes each added Block exactly once, in the order of the add calls:
\* after add(b1), ..., add(bn), forward(x) returns bn(...b2(b1(x))...).
ForwardRunsAddedInOrder ==
    fwd.called =>
        /\ fwd.trace = added
        /\ fwd.y = Compose(added, 1, fwd.x)

\* C5: MySequential and the framework's Sequential, given the same add calls and the
\* same forward(x), hold the same chain of blocks and return the same output.
SameAsSequential ==
    fwd.called =>
        /\ Values(children) = seq_children
        /\ fwd.y = fwd.seq_y

\* What holds of MySequential: the claims of C4 and C5 whenever the blocks added have
\* pairwise distinct names, as the comment of add assumes
UniqueNames == \A i, j \in DOMAIN added : added[i].name = added[j].name => i = j
ForwardWithUniqueNames ==
    (fwd.called /\ UniqueNames) =>
        /\ fwd.trace = added
        /\ fwd.y = Compose(added, 1, fwd.x)
        /\ Values(children) = seq_children
        /\ fwd.y = fwd.seq_y

(***************************************************************************)
(* Properties of TokenEmbedding, get_similar_tokens and get_analogy        *)
(***************************************************************************)
\* The word lines of vec.txt: a token followed by a vector of two or more numbers
WordLinePositions == {p \in 1..Len(vec_file) : Len(vec_file[p]) >= 3}
NumWords == Cardinality(WordLinePositions)

\* The position in vec.txt of its r-th word line
NthWordLine(r) ==
    CHOOSE p \in WordLinePositions :
        Cardinality({q \in WordLinePositions : q < p}) = r - 1

\* The vector written on line p of vec.txt
VectorAt(p) == [j \in 1..(Len(vec_file[p]) - 1) |-> FloatOf[vec_file[p][j + 1]]]

\* The word lines of token t, and the vector of the last of them
LinesOf(t) == {p \in WordLinePositions : vec_file[p][1] = t}
LastVectorOf(t) == VectorAt(CHOOSE p \in LinesOf(t) : \A q \in LinesOf(t) : q <= p)

IsZeroVector(v) == \A j \in DOMAIN v : v[j] = 0

\* C6: a TokenEmbedding built from a file with W word lines has length W + 1: index 0
\* holds '<unk>' with an all-zero vector, unknown_idx is 0, and the words occupy the
\* indices 1..W in file order.
EmbeddingLayout ==
    pcE = "built" =>
        /\ DOMAIN idx_to_token = 0..NumWords
        /\ Cardinality(DOMAIN idx_to_token) = NumWords + 1
        /\ DOMAIN idx_to_vec = 0..NumWords
        /\ idx_to_token[0] = "<unk>"
        /\ IsZeroVector(idx_to_vec[0])
        /\ unknown_idx = 0
        /\ \A r \in 1..NumWords :
              /\ idx_to_token[r] = vec_file[NthWordLine(r)][1]
              /\ idx_to_vec[r] = VectorAt(NthWordLine(r))

\* C6's case: an embedding built from a file with a header line and two or more word
\* lines
EmbeddingLayoutWitness ==
    /\ pcE = "built"
    /\ \E p \in 1..Len(vec_file) : p \notin WordLinePositions
    /\ NumWords >= 2

\* C7: embed[tokens] gives one vector per queried token, in query order: the vector
\* stored for the token (that of its last word line) when the token is in the
\* vocabulary, and the zero vector of the unknown index when it is not; the tables are
\* left as the constructor built them.
GetItemVectors ==
    res.op = "getitem" =>
        /\ Len(res.vecs) = Len(res.tokens)
        /\ \A j \in 1..Len(res.tokens) :
              IF LinesOf(res.tokens[j]) # {}
              THEN res.vecs[j] = LastVectorOf(res.tokens[j])
              ELSE /\ IsZeroVector(res.vecs[j])
                   /\ res.vecs[j] = idx_to_vec[unknown_idx]
        /\ idx_to_token = LoadTokens(vec_file)
        /\ idx_to_vec = LoadVecs(vec_file)
        /\ token_to_idx = TokenToIdx(idx_to_token)
        /\ pcE = "built"

\* C7's case: a lookup of a word of the file, of non-zero vector, and of a word that is
\* in no file
GetItemVectorsWitness ==
    /\ res.op = "getitem"
    /\ Len(res.tokens) = 2
    /\ LinesOf(res.tokens[1]) # {}
    /\ ~IsZeroVector(res.vecs[1])
    /\ res.tokens[2] = "zzz"
    /\ IsZeroVector(res.vecs[2])

\* C8 as stated: token_to_idx[idx_to_token[i]] = i for every index i, and
\* idx_to_token[token_to_idx[t]] = t for every token t of token_to_idx, also when the
\* file repeats a token or contains the literal token '<unk>'.
WordIndexRoundTrip ==
    pcE = "built" =>
        /\ \A i \in DOMAIN idx_to_token : token_to_idx[idx_to_token[i]] = i
        /\ \A t \in DOMAIN token_to_idx : idx_to_token[token_to_idx[t]] = t

\* The file repeats no token and does not contain the literal token '<unk>'
NoRepeatedToken ==
    /\ LinesOf("<unk>") = {}
    /\ \A p, q \in WordLinePositions : vec_file[p][1] = vec_file[q][1] => p = q

\* C8 as amended: idx_to_token[token_to_idx[t]] = t for every token t of token_to_idx;
\* token_to_idx[idx_to_token[i]] is the largest index that holds the token of index i,
\* so it is i for every index whose token does not occur again at a larger index, and
\* for every index when the file repeats no token and does not contain '<unk>'.
WordIndexRoundTripLast ==
    pcE = "built" =>
        /\ \A t \in DOMAIN token_to_idx : idx_to_token[token_to_idx[t]] = t
        /\ DOMAIN token_to_idx = {idx_to_token[i] : i \in DOMAIN idx_to_token}
        /\ \A i \in DOMAIN idx_to_token :
              /\ token_to_idx[idx_to_token[i]] >= i
              /\ (\A j \in DOMAIN idx_to_token : j > i => idx_to_token[j] # idx_to_token[i])
                    => token_to_idx[idx_to_token[i]] = i
        /\ NoRepeatedToken =>
              \A i \in DOMAIN idx_to_token : token_to_idx[idx_to_token[i]] = i

\* C8's case: an embedding built from a file that repeats a word and contains the
\* literal token '<unk>'
WordIndexRoundTripWitness ==
    /\ pcE = "built"
    /\ LinesOf("<unk>") # {}
    /\ \E p, q \in WordLinePositions : p # q /\ vec_file[p][1] = vec_file[q][1]

\* The cosine of u and x is greater than that of v and x, a zero row having cosine 0
\* (as knn computes it) and no cosine being greater than another when x is zero
CosineGreater(u, v, x) ==
    LET du == Dot(u, x)
        dv == Dot(v, x)
        nu == IF IsZeroVector(u) THEN 1 ELSE Dot(u, u)
        nv == IF IsZeroVector(v) THEN 1 ELSE Dot(v, v)
    IN  /\ ~IsZeroVector(x)
        /\ CASE du >= 0 /\ dv < 0 -> TRUE
             [] du < 0 /\ dv >= 0 -> FALSE
             [] du >= 0 /\ dv >= 0 -> du * du * nv > dv * dv * nu
             [] du < 0 /\ dv < 0 -> du * du * nv < dv * dv * nu

\* The vector of token t: that of its last word line, the zero vector without one
VectorOf(t) ==
    IF LinesOf(t) # {} THEN LastVectorOf(t) ELSE [j \in DOMAIN idx_to_vec[0] |-> 0]

\* C9: get_similar_tokens(query_token, k, embed) reports exactly k tokens, by
\* decreasing cosine similarity to the query, and neither query_token nor '<unk>' is
\* among them.
SimilarTokensExcludeQueryAndUnk ==
    res.op = "similar" =>
        /\ Len(res.out) = res.k
        /\ \A a, b \in 2..Len(res.topk) :
              a < b => ~CosineGreater(idx_to_vec[res.topk[b]], idx_to_vec[res.topk[a]],
                                      VectorOf(res.tokens[1]))
        /\ res.tokens[1] \notin Range(res.out)
        /\ "<unk>" \notin Range(res.out)

\* C10: get_analogy(a, b, c, embed) returns the token of a row of idx_to_vec whose
\* cosine similarity to vec(c) + vec(b) - vec(a) is the highest over all rows.
AnalogyTarget ==
    [j \in DOMAIN idx_to_vec[0] |->
        VectorOf(res.tokens[3])[j] + VectorOf(res.tokens[2])[j] - VectorOf(res.tokens[1])[j]]
AnalogyNeverUnknown ==
    res.op = "analogy" => (res.topk[1] # unknown_idx /\ res.out[1] # "<unk>")

(***************************************************************************)
(* Properties of train                                                     *)
(***************************************************************************)
\* train is inside the body of epoch number `epoch`, past the check of line 542
InEpoch == pcT \in {"for_batch", "record", "backward", "step", "sums", "report", "format"}

\* The epochs at whose start the learning rate was multiplied, in the order of the calls
DecayedAt == LET calls == SelectSeq(log, LAMBDA ev : ev.op = "set_learning_rate")
             IN  [i \in DOMAIN calls |-> calls[i].epoch]

\* The epoch indices d in 1..e with d mod lr_period = 0 (none when lr_period = 0, where
\* no epoch after epoch 0 is run)
DecayEpochs(e) == {d \in 1..e : IF lr_period = 0 THEN FALSE ELSE d % lr_period = 0}

\* rate = lr * lr_decay^k, as an equation of fractions
IsDecayed(rate, k) ==
    rate[1] * lr[2] * (lr_decay[2] ^ k) = rate[2] * lr[1] * (lr_decay[1] ^ k)

\* C14: in train the learning rate is multiplied by lr_decay exactly at the start of each
\* epoch e > 0 with e mod lr_period = 0 and at no other time: during epoch e the rate is
\* lr * lr_decay^floor(e / lr_period), and it is never changed when
\* num_epochs <= lr_period.
LearningRateSchedule ==
    /\ InEpoch =>
          /\ Len(DecayedAt) = Cardinality(DecayEpochs(epoch))
          /\ Range(DecayedAt) = DecayEpochs(epoch)
          /\ IsDecayed(learning_rate,
                       IF lr_period = 0 THEN 0 ELSE epoch \div lr_period)
    /\ pcT \notin {"idle", "call"} => IsDecayed(learning_rate, Len(DecayedAt))
    /\ (pcT \notin {"idle", "call"} /\ num_epochs <= lr_period) =>
          (DecayedAt = <<>> /\ learning_rate = lr)

\* C14's case: a batch of an epoch after the first decay that is not itself a multiple of
\* lr_period, the rate being the decayed one
LearningRateScheduleWitness ==
    /\ pcT = "step"
    /\ lr_period >= 2
    /\ epoch > lr_period
    /\ epoch % lr_period # 0
    /\ DecayedAt = <<lr_period>>
    /\ learning_rate = Times(lr, lr_decay)

\* The calls train has made on batches: forward pass and loss, backward, step, sums
BatchEvents ==
    SelectSeq(log, LAMBDA ev : ev.op \in {"forward", "backward", "step", "sums"})

\* The k-th call on a batch of a run that goes through every batch of train_iter once per
\* epoch, in the order forward, backward, step, sums
ExpectedBatchEvent(k) ==
    LET B == Len(train_iter)
        e == (k - 1) \div (4 * B)
        b == (((k - 1) % (4 * B)) \div 4) + 1
        op == <<"forward", "backward", "step", "sums">>[((k - 1) % 4) + 1]
    IN  [op |-> op, epoch |-> e, batch |-> b]

\* The calls on batches are made in the expected order, none left out or repeated
BatchOrder == \A k \in DOMAIN BatchEvents : BatchEvents[k] = ExpectedBatchEvent(k)

\* The epochs whose report was printed
EpochsPrinted == SelectSeq(log, LAMBDA ev : ev.op = "print")

\* train has gone through num_epochs epochs and every batch of each
AllEpochsRun ==
    /\ epoch = num_epochs
    /\ Len(EpochsPrinted) = num_epochs
    /\ Len(BatchEvents) = 4 * Len(train_iter) * num_epochs

\* C16 as stated: train runs exactly num_epochs epochs and ends without an error; in
\* each epoch every batch of train_iter is processed once, by forward pass and loss,
\* backward, one trainer.step and the update of the sums, in this order.
TrainRunsAllEpochs ==
    /\ BatchOrder
    /\ pcT # "error"
    /\ pcT = "done" => AllEpochsRun

\* train_iter yields no batch and there is an epoch to run: n stays 0
NoBatchToTrainOn == Len(train_iter) = 0 /\ num_epochs >= 1

\* lr_period is 0 and there is a second epoch to start
NoPeriod == lr_period = 0 /\ num_epochs >= 2

\* What holds in every state of train: the calls on batches are in order; train returns
\* only after num_epochs full epochs, and it does unless it raises ZeroDivisionError:
\* at the report of the first epoch when train_iter is empty, at the start of the second
\* epoch when lr_period is 0.
TrainRunsOrRaises ==
    /\ BatchOrder
    /\ pcT = "done" => (AllEpochsRun /\ ~NoBatchToTrainOn /\ ~NoPeriod)
    /\ pcT = "error" =>
          IF NoBatchToTrainOn
          THEN epoch = 0 /\ BatchEvents = <<>> /\ EpochsPrinted = <<>>
          ELSE /\ NoPeriod
               /\ epoch = 1
               /\ Len(EpochsPrinted) = 1
               /\ Len(BatchEvents) = 4 * Len(train_iter)

\* C16, amended: train terminates, and TrainRunsOrRaises holds throughout.
TrainEpochsAndOrder == []TrainRunsOrRaises /\ <>(pcT \in {"done", "error"})

\* C16's case: train has returned after two epochs or more of two batches or more
TrainEpochsAndOrderWitness ==
    /\ pcT = "done"
    /\ num_epochs >= 2
    /\ Len(train_iter) >= 2
    /\ train_iter[Len(train_iter)] < batch_size
    /\ Len(BatchEvents) = 4 * Len(train_iter) * num_epochs

(***************************************************************************)
(* Properties of the submission                                            *)
(***************************************************************************)
\* C15: the submission holds exactly one row per test image: preds has len(test_ds)
\* entries, and row i pairs the prediction for the i-th example of test_ds (the files
\* "1.png" .. "N.png" by sorted file name, unshuffled) with the id of that same file.
SubmissionRowsMatchFiles ==
    pcP = "done" =>
        /\ Len(preds) = Len(test_ds)
        /\ Len(df) = Len(test_ds)
        /\ \A i \in DOMAIN test_ds :
              /\ Str(df[i].id) = NameOf(test_ds[i].file)
              /\ df[i].id = test_ds[i].image
              /\ df[i].label = ClassNames[((net[1] * test_ds[i].image + net[2]) % 10) + 1]
        /\ \A i, j \in DOMAIN df : df[i].id = df[j].id => i = j

\* C15's case: a submission of ten images or more, in several batches, whose ids are not
\* in numeric order
SubmissionRowsMatchFilesWitness ==
    /\ pcP = "done"
    /\ Len(df) >= 10
    /\ Len(test_iter) >= 2
    /\ df[2].id = 10
    /\ \E i \in DOMAIN df : df[i].id # i

(***************************************************************************)
(* reorg_train_valid on a file without label                               *)
(***************************************************************************)
\* The positions of listing whose file has no key in labels
Unlabelled == {p \in DOMAIN listing : NameOf(listing[p]) \notin DOMAIN labels}

\* The first of them
FirstUnlabelled == CHOOSE p \in Unlabelled : \A q \in Unlabelled : p <= q

\* The files some folder of train_valid_test holds
Copied == {e[2] : e \in train_valid \cup valid \cup train}

\* C17: reorg_train_valid raises an uncaught error on the first file of data_dir/train
\* whose name before the first '.' is not a key of labels: the run does not return, that
\* file and the files after it are copied nowhere, and every file before it keeps the
\* copies made for it (train_valid/<label>, and one of valid/<label>, train/<label>).
ReorgStopsAtUnlabelled ==
    Unlabelled # {} =>
        /\ pcR # "done"
        /\ pos < FirstUnlabelled
        /\ \A p \in FirstUnlabelled..Len(listing) : listing[p] \notin Copied
        /\ pcR = "error" =>
              /\ pos = FirstUnlabelled - 1
              /\ \A p \in 1..pos :
                    LET L == labels[NameOf(listing[p])] IN
                    /\ <<L, listing[p]>> \in train_valid
                    /\ <<L, listing[p]>> \in valid \cup train
              /\ Copied = {listing[p] : p \in 1..pos}

\* C17's case: the error is raised after some files were copied, to valid and to train,
\* and with files left
ReorgStopsAtUnlabelledWitness ==
    /\ pcR = "error"
    /\ Unlabelled # {}
    /\ valid # {}
    /\ train # {}
    /\ FirstUnlabelled < Len(listing)
    /\ pos = FirstUnlabelled - 1

====
